---- MODULE Spec2Model ----
(***************************************************************************)
(* Model of the paginated ingestion and JSON flattening pipeline of the    *)
(* SDG dashboard (src/sdg_dashboard.py) and of the request construction of *)
(* the ACLED dashboard (src/acled_dashboard.py).                           *)
(*                                                                         *)
(* JSON values are tagged records [kind, val]:                             *)
(*   kind "str"  : val is the text of a Python str                         *)
(*   kind "num"  : val is the decimal text of a Python int/float           *)
(*   kind "none" : Python None (JSON null)                                 *)
(*   kind "nan"  : the missing-value marker pandas fills in (NaN)          *)
(*   kind "list" : val is the sequence of the elements                     *)
(*   kind "dict" : val is the sequence of <<key, value>> pairs, in         *)
(*                 insertion order, keys distinct (a Python dict)          *)
(* A Python dict that is not itself a JSON value of a record (entry,       *)
(* row_data) is the bare sequence of <<key, value>> pairs.                 *)
(***************************************************************************)
EXTENDS Integers, Sequences, FiniteSets, TLC

VARIABLES
    pc,              \* position of the "get data" handler of the SDG page
    max_pages,       \* the number input of line 160
    page_num,        \* loop variable of line 170
    extracted_data,  \* accumulator of line 168: sequence of row_data dicts
    requested,       \* page numbers passed to get_data, in call order
    responses,       \* what get_data returned for each of them
    errors,          \* st.error calls of line 236 (the page that failed)
    shown,           \* st.write "no data ..." messages displayed
    df,              \* the table of line 239 and after; NoDf before it exists
    entry,           \* one raw record handed to the flattening step
    row_data,        \* the flat row built from entry
    fpc,             \* position of the flattening step
    dashboard,       \* the page whose request is built: "sdg" or "acled"
    selected,        \* the filter selection held by the widgets
    hash_seed,       \* the string hash seed of the running Python process
    builds,          \* the requests built so far, with their selection
    cache,           \* st.cache_data of get_data: url -> remembered value
    network,         \* number of requests.get calls made by get_data
    returned,        \* what the latest get_data call of each url returned
    last_call        \* the latest get_data call: url, hit or miss, result

vars == <<pc, max_pages, page_num, extracted_data, requested, responses,
          errors, shown, df, entry, row_data, fpc, dashboard, selected,
          hash_seed, builds, cache, network, returned, last_call>>

queryVars == <<dashboard, selected, hash_seed, builds>>

cacheVars == <<cache, network, returned, last_call>>

----------------------------------------------------------------------------
(* JSON values                                                             *)

Str(s) == [kind |-> "str", val |-> s]
Num(s) == [kind |-> "num", val |-> s]
None == [kind |-> "none", val |-> ""]
NaN == [kind |-> "nan", val |-> ""]
List(items) == [kind |-> "list", val |-> items]
Dict(pairs) == [kind |-> "dict", val |-> pairs]

\* isinstance(value, str) / list / dict
IsStr(v) == v.kind = "str"
IsList(v) == v.kind = "list"
IsDict(v) == v.kind = "dict"
IsScalar(v) == v.kind \in {"str", "num", "none", "nan"}

----------------------------------------------------------------------------
(* Python dict operations on sequences of <<key, value>> pairs             *)

Range(s) == {s[i] : i \in DOMAIN s}

\* d.keys(), in insertion order
Keys(d) == [i \in DOMAIN d |-> d[i][1]]

KeySet(d) == {d[i][1] : i \in DOMAIN d}

\* key in d
HasKey(d, k) == k \in KeySet(d)

\* d[k] for a key that is present
DictAt(d, k) == d[CHOOSE i \in DOMAIN d : d[i][1] = k][2]

\* d.get(k, default)
DictGet(d, k, default) == IF HasKey(d, k) THEN DictAt(d, k) ELSE default

\* d[k] = v : an existing key keeps its position, a new key goes last
DictSet(d, k, v) ==
    IF HasKey(d, k)
    THEN [i \in DOMAIN d |-> IF d[i][1] = k THEN <<k, v>> ELSE d[i]]
    ELSE Append(d, <<k, v>>)

----------------------------------------------------------------------------
(* The flattening step of the page loop, lines 182-228                     *)

\* The texts the model hands to json.loads.
JsonDimText == "{\"sex\": \"female\", \"age\": \"15-19\"}"
JsonAttrText == "{\"Nature\": \"E\"}"
JsonListText == "[\"a\"]"
JsonNumText == "12.5"
NotJsonText == "n/a"

\* What json.loads raises on a text that is not JSON.
JSONDecodeError == [kind |-> "error", val |-> "JSONDecodeError"]

\* json.loads(value): the parsed value, or JSONDecodeError.
json_loads(s) ==
    CASE s = JsonDimText ->
             Dict(<< <<"sex", Str("female")>>, <<"age", Str("15-19")>> >>)
      [] s = JsonAttrText -> Dict(<< <<"Nature", Str("E")>> >>)
      [] s = JsonListText -> List(<<Str("a")>>)
      [] s = JsonNumText -> Num("12.5")
      [] OTHER -> JSONDecodeError

\* for k, v in pairs: row[f"{prefix}{k}"] = v     (lines 201-202, 206-207,
\* 216-217, 221-222)
RECURSIVE ExpandInto(_, _, _)
ExpandInto(row, prefix, pairs) ==
    IF pairs = <<>> THEN row
    ELSE ExpandInto(DictSet(row, prefix \o Head(pairs)[1], Head(pairs)[2]),
                    prefix, Tail(pairs))

\* ExpandField that expands and then also keeps the raw field.
ExpandFieldKeepsRaw(row, key, value, prefix) ==
    IF IsStr(value)
    THEN LET parsed == json_loads(value.val)
         IN IF IsDict(parsed)
            THEN DictSet(ExpandInto(row, prefix, parsed.val), key, value)
            ELSE DictSet(row, key, value)
    ELSE IF IsDict(value)
         THEN DictSet(ExpandInto(row, prefix, value.val), key, value)
         ELSE DictSet(row, key, value)

\* ExpandField that expands JSON text only and copies an object as it is.
ExpandFieldOnlyText(row, key, value, prefix) ==
    IF IsStr(value)
    THEN LET parsed == json_loads(value.val)
         IN IF IsDict(parsed)
            THEN ExpandInto(row, prefix, parsed.val)
            ELSE DictSet(row, key, value)
    ELSE DictSet(row, key, value)

\* ExpandField that lets go of a text it cannot expand.
ExpandFieldDropsUnparsable(row, key, value, prefix) ==
    IF IsStr(value)
    THEN LET parsed == json_loads(value.val)
         IN IF IsDict(parsed)
            THEN ExpandInto(row, prefix, parsed.val)
            ELSE row
    ELSE IF IsDict(value)
         THEN ExpandInto(row, prefix, value.val)
         ELSE DictSet(row, key, value)

\* Lines 197-209 and 212-224: one "dimensions" or "attributes" field.  A str
\* is parsed; anything json.loads raises on, and a parsed value without
\* .items(), ends in the bare except, which copies the raw value.
ExpandField(row, key, value, prefix) ==
    IF IsStr(value)
    THEN LET parsed == json_loads(value.val)
         IN IF IsDict(parsed)
            THEN ExpandInto(row, prefix, parsed.val)
            ELSE DictSet(row, key, value)
    ELSE IF IsDict(value)
         THEN ExpandInto(row, prefix, value.val)
         ELSE DictSet(row, key, value)

\* FlattenField that skips the indicator key whatever its case.
FlattenFieldAnyCase(row, key, value) ==
    IF key \in {"indicator", "Indicator"} THEN row
    ELSE IF key = "dimensions" THEN ExpandField(row, key, value, "dimension_")
    ELSE IF key = "attributes" THEN ExpandField(row, key, value, "attribute_")
    ELSE DictSet(row, key, value)

\* Lines 194-226: the body of "for key, value in entry.items()".
FlattenField(row, key, value) ==
    IF key = "indicator" THEN row
    ELSE IF key = "dimensions" THEN ExpandField(row, key, value, "dimension_")
    ELSE IF key = "attributes" THEN ExpandField(row, key, value, "attribute_")
    ELSE DictSet(row, key, value)

RECURSIVE FlattenFields(_, _)
FlattenFields(row, fields) ==
    IF fields = <<>> THEN row
    ELSE FlattenFields(FlattenField(row, Head(fields)[1], Head(fields)[2]),
                       Tail(fields))

\* Lines 187-190: the value stored under "Indicator".
IndicatorOf(e) ==
    LET ind == DictGet(e, "indicator", None)
    IN IF HasKey(e, "indicator") /\ IsList(ind) /\ Len(ind.val) > 0
       THEN ind.val[1]
       ELSE DictGet(e, "indicator", Str(""))

\* Lines 184-226: the row_data built for one entry.
flatten(e) == FlattenFields(<< <<"Indicator", IndicatorOf(e)>> >>, e)

----------------------------------------------------------------------------
(* Tables (pandas DataFrame): a sequence of column names and a sequence of *)
(* rows, each row a sequence of cells aligned with the columns.            *)

\* df = None (line 324)
NoDf == [columns |-> <<>>, rows |-> <<>>, none |-> TRUE]

Table(columns, rows) == [columns |-> columns, rows |-> rows, none |-> FALSE]

\* df.empty: no rows or no columns
IsEmpty(t) == t.rows = <<>> \/ t.columns = <<>>

ColSet(t) == Range(t.columns)

ColIndex(t, c) == CHOOSE j \in DOMAIN t.columns : t.columns[j] = c

\* the cell of row i under column c
Cell(t, i, c) == t.rows[i][ColIndex(t, c)]

\* The keys of a list of dicts in order of first appearance.
RECURSIVE UnionKeys(_, _)
UnionKeys(acc, rows) ==
    IF rows = <<>> THEN acc
    ELSE UnionKeys(acc \o SelectSeq(Keys(Head(rows)),
                                    LAMBDA k : k \notin Range(acc)),
                   Tail(rows))

\* DataFrame that takes its columns from the first row alone.
DataFrameFirstRowColumns(rows) ==
    LET cols == IF rows = <<>> THEN <<>> ELSE Keys(Head(rows))
    IN Table(cols,
             [i \in DOMAIN rows |->
                 [j \in DOMAIN cols |-> DictGet(rows[i], cols[j], NaN)]])

\* Line 239: pd.DataFrame(extracted_data) on a list of dicts: the columns are
\* the keys seen in any row, a row lacking a key holds NaN there.
DataFrame(rows) ==
    LET cols == UnionKeys(<<>>, rows)
    IN Table(cols,
             [i \in DOMAIN rows |->
                 [j \in DOMAIN cols |-> DictGet(rows[i], cols[j], NaN)]])

----------------------------------------------------------------------------
(* The geographic join, lines 245-258                                      *)

\* Lines 33-38 and the column selection of line 256: the reference table,
\* one row per area code, m49 read as text.
iso3_reference_df ==
    Table(<<"Country or Area", "Region Name", "Sub-region Name",
            "Intermediate Region Name", "iso2", "iso3", "m49">>,
          << <<Str("Afghanistan"), Str("Asia"), Str("Southern Asia"), NaN,
               Str("AF"), Str("AFG"), Str("4")>>,
             <<Str("Algeria"), Str("Africa"), Str("Northern Africa"), NaN,
               Str("DZ"), Str("DZA"), Str("12")>>,
             <<Str("Angola"), Str("Africa"), Str("Sub-Saharan Africa"),
               Str("Middle Africa"), Str("AO"), Str("AGO"), Str("24")>> >>)

\* Line 247
possible_country_columns == <<"m49", "geoAreaCode", "areaCode", "countryCode">>

NoColumn == "<none>"

\* Lines 246-252: the first candidate that is a column of the table.
country_code_column(t) ==
    LET found == SelectSeq(possible_country_columns,
                           LAMBDA c : c \in ColSet(t))
    IN IF found = <<>> THEN NoColumn ELSE Head(found)

\* JoinRow of an inner join: a left row without a match is dropped.
JoinRowInner(lrow, lkey, right, rcols, right_on) ==
    LET hits == SelectSeq(right.rows,
                          LAMBDA r : r[ColIndex(right, right_on)] = lkey)
        pick(r) == [j \in DOMAIN rcols |-> r[ColIndex(right, rcols[j])]]
    IN [h \in DOMAIN hits |-> lrow \o pick(hits[h])]

\* The rows of a left join for one left row: one per matching right row, in
\* the right table's order, or one filled with NaN when none matches.
JoinRow(lrow, lkey, right, rcols, right_on) ==
    LET hits == SelectSeq(right.rows,
                          LAMBDA r : r[ColIndex(right, right_on)] = lkey)
        pick(r) == [j \in DOMAIN rcols |-> r[ColIndex(right, rcols[j])]]
    IN IF hits = <<>>
       THEN << lrow \o [j \in DOMAIN rcols |-> NaN] >>
       ELSE [h \in DOMAIN hits |-> lrow \o pick(hits[h])]

RECURSIVE JoinRows(_, _, _, _, _, _)
JoinRows(lrows, left, left_on, right, rcols, right_on) ==
    IF lrows = <<>> THEN <<>>
    ELSE JoinRow(Head(lrows), Head(lrows)[ColIndex(left, left_on)],
                 right, rcols, right_on)
         \o JoinRows(Tail(lrows), left, left_on, right, rcols, right_on)

\* Line 256: left.merge(right, left_on=..., right_on=..., how='left').  The
\* key column appears once when both sides name it alike.
merge(left, right, left_on, right_on) ==
    LET rcols == SelectSeq(right.columns,
                           LAMBDA c : ~(c = right_on /\ left_on = right_on))
    IN Table(left.columns \o rcols,
             JoinRows(left.rows, left, left_on, right, rcols, right_on))

\* Lines 254-258: the join when a code column was found, else the table as
\* it is (and a warning).
GeoJoin(t) ==
    IF country_code_column(t) # NoColumn
    THEN merge(t, iso3_reference_df, country_code_column(t), "m49")
    ELSE t

----------------------------------------------------------------------------
(* Cleaning, renaming and ordering of the columns, lines 260-321           *)

\* The texts pd.to_numeric parses as a number.
NumericTexts == {"12.5", "2000", "4", "12", "999"}

\* pd.to_numeric(..., errors='coerce') on one cell.
to_numeric(v) ==
    IF v.kind = "num" THEN v
    ELSE IF IsStr(v) /\ v.val \in NumericTexts THEN Num(v.val)
    ELSE NaN

\* Lines 261-264: the columns named Value and Year are made numeric.
Coerce(t) ==
    Table(t.columns,
          [i \in DOMAIN t.rows |->
              [j \in DOMAIN t.columns |->
                  IF t.columns[j] \in {"Value", "Year"}
                  THEN to_numeric(t.rows[i][j])
                  ELSE t.rows[i][j]]])

\* The numbers of the model that are not whole.
FractionTexts == {"12.5"}

\* Line 264: .astype('Int64') raises TypeError on a Year column holding a
\* number that is not whole (NaN becomes <NA>).
AstypeRaises(t) ==
    \E i \in DOMAIN t.rows : \E j \in DOMAIN t.columns :
        /\ t.columns[j] = "Year"
        /\ to_numeric(t.rows[i][j]).kind = "num"
        /\ to_numeric(t.rows[i][j]).val \in FractionTexts

\* The inner keys of "dimensions" the model knows.
DimKeys == {"sex", "age"}

\* col.startswith('dimension_')
IsDimensionColumn(c) == c \in {"dimension_" \o k : k \in DimKeys}

\* Lines 268-271: f"Breakdown by {col.replace('dimension_', '')}"
column_mapping(c) ==
    IF IsDimensionColumn(c)
    THEN "Breakdown by " \o (CHOOSE k \in DimKeys : c = "dimension_" \o k)
    ELSE c

\* Line 273: df.rename(columns=column_mapping)
Rename(t) ==
    Table([j \in DOMAIN t.columns |-> column_mapping(t.columns[j])], t.rows)

\* col.startswith('Breakdown by')
IsBreakdownColumn(c) == c \in {"Breakdown by " \o k : k \in DimKeys}

\* Every column name of the model, in the order Python's sorted() puts
\* them (code point order: capitals before small letters).
SortedNames ==
    <<"Breakdown by age", "Breakdown by sex", "Country or Area", "Indicator",
      "Intermediate Region Name", "Region Name", "Sub-region Name", "Value",
      "Year", "a", "attribute_Nature", "attribute_Units", "attributes", "b",
      "dimension_age", "dimension_sex", "dimensions", "footnotes",
      "geoAreaCode", "goal", "iso2", "iso3", "m49", "series",
      "seriesDescription", "source", "timePeriodStart", "value">>

\* sorted(cols) for a list of distinct column names
sorted(cols) == SelectSeq(SortedNames, LAMBDA c : c \in Range(cols))

\* Lines 311-315
unwanted_columns ==
    {"attribute_Nature", "source", "target", "timeCoverage", "time_detail",
     "upperBound", "lowerBound", "footnotes", "seriesCount", "geoInfoUrl",
     "basePeriod", "valueType"}

\* [c] if c is a column of the table, else []
IfColumn(t, c) == IF c \in ColSet(t) THEN <<c>> ELSE <<>>

\* priority_columns that leaves the remaining columns in table order.
priority_columnsUnsorted(t) ==
    LET first ==
            IfColumn(t, "m49") \o IfColumn(t, "iso3")
            \o IfColumn(t, "Region Name") \o IfColumn(t, "Sub-region Name")
            \o IfColumn(t, "Intermediate Region Name")
            \o IfColumn(t, "Country or Area")
            \o sorted(SelectSeq(t.columns, IsBreakdownColumn))
            \o IfColumn(t, "seriesDescription")
            \o IfColumn(t, "timePeriodStart") \o IfColumn(t, "value")
        remaining_columns ==
            SelectSeq(t.columns,
                      LAMBDA c : c \notin Range(first)
                                 /\ c \notin unwanted_columns)
    IN first \o remaining_columns

\* Lines 276-318: the columns of the final table, in order.
priority_columns(t) ==
    LET first ==
            IfColumn(t, "m49") \o IfColumn(t, "iso3")
            \o IfColumn(t, "Region Name") \o IfColumn(t, "Sub-region Name")
            \o IfColumn(t, "Intermediate Region Name")
            \o IfColumn(t, "Country or Area")
            \o sorted(SelectSeq(t.columns, IsBreakdownColumn))
            \o IfColumn(t, "seriesDescription")
            \o IfColumn(t, "timePeriodStart") \o IfColumn(t, "value")
        remaining_columns ==
            SelectSeq(t.columns,
                      LAMBDA c : c \notin Range(first)
                                 /\ c \notin unwanted_columns)
    IN first \o sorted(remaining_columns)

\* Line 321: df[priority_columns]
Reorder(t) ==
    LET cols == priority_columns(t)
    IN Table(cols,
             [i \in DOMAIN t.rows |->
                 [j \in DOMAIN cols |-> Cell(t, i, cols[j])]])

\* Lines 239-321: the table the handler leaves in df.
BuildTable(rows) ==
    LET frame == DataFrame(rows)
    IN IF IsEmpty(frame) THEN frame
       ELSE Reorder(Rename(Coerce(GeoJoin(frame))))

\* Line 264 raises while the table of these rows is built.
BuildRaises(rows) ==
    LET frame == DataFrame(rows)
    IN ~IsEmpty(frame) /\ AstypeRaises(GeoJoin(frame))

----------------------------------------------------------------------------
(* The page loop of the "get data" handler, lines 165-239                  *)

\* Line 151 sets page_size = 1000; the model scales it down.
page_size == 2

\* The largest value the model gives the number input of line 160.
MaxPagesBound == 3

\* Raw records as the API lists them in "data".
recA ==
    << <<"indicator", List(<<Str("1.1.1")>>)>>,
       <<"geoAreaCode", Str("4")>>,
       <<"value", Str("12.5")>>,
       <<"dimensions", Dict(<< <<"sex", Str("female")>> >>)>> >>

recB ==
    << <<"geoAreaCode", Str("999")>>,
       <<"value", Str("n/a")>>,
       <<"attributes", Dict(<< <<"Nature", Str("E")>> >>)>>,
       <<"footnotes", List(<<Str("")>>)>> >>

recC ==
    << <<"indicator", Str("1.2.1")>>,
       <<"value", Num("12")>>,
       <<"dimensions", Str(JsonDimText)>> >>

\* The records the model lets the API put on a page.
LoopRecords == {recA, recB}

SeqsUpTo(S, n) == UNION {[1..m -> S] : m \in 0..n}

\* The "data" lists the API may send: up to page_size records, and a page
\* that carries one record more than was asked for.
Pages ==
    SeqsUpTo(LoopRecords, page_size)
    \cup {[i \in 1..(page_size + 1) |-> recA]}

\* What get_data returns: an Exception (lines 19-31), a JSON object with or
\* without a "data" list, or a JSON array.
Failure == [kind |-> "exc", has_data |-> FALSE, data |-> <<>>]
Payload(page) == [kind |-> "dict", has_data |-> TRUE, data |-> page]
NoDataKey == [kind |-> "dict", has_data |-> FALSE, data |-> <<>>]
BareList(page) == [kind |-> "list", has_data |-> FALSE, data |-> page]

\* isinstance(data, Exception), line 173
IsException(resp) == resp.kind = "exc"

\* data.get('data', []), lines 176 and 232
DataOf(resp) == IF resp.has_data THEN resp.data ELSE <<>>

\* Line 176: "if not data.get('data', [])"
NoData(resp) == DataOf(resp) = <<>>

\* ShortPage without the check of line 232.
ShortPageNever(resp) == FALSE

\* Line 232: the page is shorter than page_size
ShortPage(resp) == Len(DataOf(resp)) < page_size

\* AppendRows that skips an entry whose row is already collected.
RECURSIVE AppendRowsDedup(_, _)
AppendRowsDedup(acc, entries) ==
    IF entries = <<>> THEN acc
    ELSE AppendRowsDedup(IF flatten(Head(entries)) \in Range(acc)
                         THEN acc
                         ELSE Append(acc, flatten(Head(entries))),
                         Tail(entries))

\* Lines 182-228: one row_data per entry, appended in the order of the page.
RECURSIVE AppendRows(_, _)
AppendRows(acc, entries) ==
    IF entries = <<>> THEN acc
    ELSE AppendRows(Append(acc, flatten(Head(entries))), Tail(entries))

\* ProcessPage that throws the collected rows away on a failure.
ProcessPageDiscards(acc, resp) ==
    IF IsException(resp) THEN <<>>
    ELSE IF NoData(resp) THEN acc
    ELSE AppendRows(acc, resp.data)

\* Lines 173-237: the accumulator after one returned value of get_data.
\* (The test of line 179 is never true: an empty list left at line 177.)
ProcessPage(acc, resp) ==
    IF IsException(resp) THEN acc
    ELSE IF NoData(resp) THEN acc
    ELSE AppendRows(acc, resp.data)

\* Lines 176-177, 232-233, 237: the iteration ends in a break.
Breaks(resp) == IsException(resp) \/ NoData(resp) \/ ShortPage(resp)

\* HasNextPage with the range one page too long.
HasNextPageOffByOne(p, mp) == p + 1 \in 1..(mp + 1)

\* Line 170: range(1, max_pages + 1) has a page after p.
HasNextPage(p, mp) == p + 1 \in 1..mp

\* Lines 376-451: what the page shows for df.
Display(t) ==
    IF t.none THEN <<>>
    ELSE IF IsEmpty(t) THEN <<"no data returned for selected filters">>
    ELSE <<"Dataset">>

\* The page URLs get_data is called with.
URLs == {"data_url&page=1", "data_url&page=2"}

\* No value: the cache holds nothing for the url, no call was made yet.
Absent == [kind |-> "absent", has_data |-> FALSE, data |-> <<>>]

\* The cache of a fresh server process.
EmptyCache == [u \in URLs |-> Absent]

NoCall == [url |-> "", request |-> FALSE, before |-> Absent, result |-> Absent]

\* get_data has not been called.
NoCache ==
    /\ cache = EmptyCache
    /\ network = 0
    /\ returned = EmptyCache
    /\ last_call = NoCall

\* No request is being built.
NoQuery ==
    /\ dashboard = "sdg"
    /\ selected = <<>>
    /\ hash_seed = "seed1"
    /\ builds = <<>>

Init ==
    /\ pc = "idle"
    /\ max_pages = 1
    /\ page_num = 1
    /\ extracted_data = <<>>
    /\ requested = <<>>
    /\ responses = <<>>
    /\ errors = <<>>
    /\ shown = <<>>
    /\ df = NoDf
    /\ entry = <<>>
    /\ row_data = <<>>
    /\ fpc = "off"
    /\ NoQuery
    /\ NoCache

\* Lines 160-169: the button is pressed; the script runs from the top.
Click ==
    /\ pc \in {"idle", "done", "crashed"}
    /\ \E mp \in 1..MaxPagesBound : max_pages' = mp
    /\ page_num' = 1
    /\ extracted_data' = <<>>
    /\ requested' = <<>>
    /\ responses' = <<>>
    /\ errors' = <<>>
    /\ shown' = <<>>
    /\ df' = NoDf
    /\ pc' = "loop"
    /\ UNCHANGED <<entry, row_data, fpc,
                   queryVars, cacheVars>>

\* Lines 170-237: one iteration on a value get_data returned that has .get
\* (an Exception stops the loop after st.error).
Iterate(resp) ==
    /\ requested' = Append(requested, page_num)
    /\ responses' = Append(responses, resp)
    /\ extracted_data' = ProcessPage(extracted_data, resp)
    /\ errors' = IF IsException(resp) THEN Append(errors, page_num) ELSE errors
    /\ IF ~Breaks(resp) /\ HasNextPage(page_num, max_pages)
       THEN page_num' = page_num + 1 /\ pc' = "loop"
       ELSE page_num' = page_num /\ pc' = "build"
    /\ UNCHANGED <<max_pages, shown, df, entry, row_data, fpc,
                   queryVars, cacheVars>>

FetchFailure ==
    /\ pc = "loop"
    /\ Iterate(Failure)

FetchPage ==
    /\ pc = "loop"
    /\ \E page \in Pages : Iterate(Payload(page))

FetchNoDataKey ==
    /\ pc = "loop"
    /\ Iterate(NoDataKey)

\* Line 176 on a JSON array: a list has no .get, the AttributeError is not
\* caught and the script run ends there.
FetchBareList ==
    /\ pc = "loop"
    /\ \E page \in Pages :
          /\ requested' = Append(requested, page_num)
          /\ responses' = Append(responses, BareList(page))
    /\ pc' = "crashed"
    /\ UNCHANGED <<max_pages, page_num, extracted_data, errors, shown, df,
                   entry, row_data, fpc,
                   queryVars, cacheVars>>

\* Lines 239-321 and 376-451: the table is built and shown.
Build ==
    /\ pc = "build"
    /\ IF BuildRaises(extracted_data)
       THEN /\ pc' = "crashed"
            /\ UNCHANGED <<df, shown>>
       ELSE /\ df' = BuildTable(extracted_data)
            /\ shown' = Display(BuildTable(extracted_data))
            /\ pc' = "done"
    /\ UNCHANGED <<max_pages, page_num, extracted_data, requested, responses,
                   errors, entry, row_data, fpc,
                   queryVars, cacheVars>>

Next ==
    \/ Click
    \/ FetchFailure
    \/ FetchPage
    \/ FetchNoDataKey
    \/ FetchBareList
    \/ Build

Spec == Init /\ [][Next]_vars

----------------------------------------------------------------------------
(* Properties of the page loop                                             *)

\* The response is a JSON object (get_data succeeded and the page has .get).
IsPage(resp) == resp.kind = "dict"

\* The rows the pages of a history of responses contribute, page by page
\* and record by record.
RECURSIVE ExpectedRows(_)
ExpectedRows(resps) ==
    IF resps = <<>> THEN <<>>
    ELSE (IF IsPage(Head(resps))
          THEN [i \in DOMAIN DataOf(Head(resps)) |->
                   flatten(DataOf(Head(resps))[i])]
          ELSE <<>>)
         \o ExpectedRows(Tail(resps))

\* The last n elements of s
LastN(s, n) == SubSeq(s, Len(s) - n + 1, Len(s))

\* C1: once a successfully fetched page carries fewer than page_size
\* records, its records are the last ones appended, the loop has ended and
\* no page with a higher number is requested, whatever max_pages is.
C1_ShortPageEndsLoop ==
    \A i \in DOMAIN responses :
        (IsPage(responses[i]) /\ Len(DataOf(responses[i])) < page_size)
        => /\ i = Len(responses)
           /\ pc # "loop"
           /\ \A j \in DOMAIN requested : requested[j] <= requested[i]
           /\ Len(extracted_data) >= Len(DataOf(responses[i]))
           /\ LastN(extracted_data, Len(DataOf(responses[i])))
                = ExpectedRows(<<responses[i]>>)

\* A short, non-empty first page ended a run that allowed more pages.
C1_Witness ==
    /\ pc = "done"
    /\ max_pages > 1
    /\ Len(responses) = 1
    /\ IsPage(responses[1])
    /\ Len(DataOf(responses[1])) \in 1..(page_size - 1)
    /\ Len(extracted_data) = Len(DataOf(responses[1]))

\* Every response so far is a page with at least page_size records.
AllFull ==
    \A i \in DOMAIN responses :
        IsPage(responses[i]) /\ Len(DataOf(responses[i])) >= page_size

\* C2: pages are requested in the order 1, 2, ... and never beyond
\* max_pages; when every fetch returned a full page the loop ends after
\* exactly the pages 1..max_pages.
C2_FullPagesReachCap ==
    /\ requested = [i \in 1..Len(requested) |-> i]
    /\ pc \in {"loop", "build", "done"} => Len(requested) <= max_pages
    /\ (pc \in {"build", "done"} /\ responses # <<>> /\ AllFull)
       => requested = [i \in 1..max_pages |-> i]

\* With max_pages = 1 a full page 1 was fetched and the loop ended.
C2_Witness ==
    /\ pc = "done"
    /\ max_pages = 1
    /\ requested = <<1>>
    /\ AllFull

\* Row i of the table holds, for every key of the i-th flat row that is not
\* deny-listed, that row's value under the (renamed) column.
RowsKept(rows, t) ==
    /\ Len(t.rows) = Len(rows)
    /\ \A i \in DOMAIN rows :
          \A p \in DOMAIN rows[i] :
              LET key == rows[i][p][1]
              IN key \notin unwanted_columns
                 => /\ column_mapping(key) \in ColSet(t)
                    /\ Cell(t, i, column_mapping(key)) = rows[i][p][2]

\* C3: a failure of page k ends the loop (no later request), is reported
\* with st.error, and the table built after the loop still holds every row
\* flattened from the pages before k.
C3_FailureKeepsPartial ==
    \A k \in DOMAIN responses :
        IsException(responses[k])
        => /\ k = Len(responses)
           /\ pc # "loop"
           /\ errors = <<requested[k]>>
           /\ extracted_data = ExpectedRows(SubSeq(responses, 1, k - 1))
           /\ pc = "done"
              => RowsKept(ExpectedRows(SubSeq(responses, 1, k - 1)), df)

\* Page 2 failed after page 1 delivered rows, and the table has been built.
C3_Witness ==
    /\ pc = "done"
    /\ Len(responses) = 2
    /\ IsException(responses[2])
    /\ Len(ExpectedRows(<<responses[1]>>)) >= page_size
    /\ ~IsEmpty(df)

\* C4: the accumulated rows are exactly the flattened records of the
\* appended pages, in page order and within a page in the listed order, one
\* row per record, duplicates kept.
C4_RowsInPageOrder == extracted_data = ExpectedRows(responses)

\* Two pages were appended and the same record came on both.
C4_Witness ==
    /\ pc = "done"
    /\ Len(responses) = 2
    /\ IsPage(responses[1]) /\ IsPage(responses[2])
    /\ DataOf(responses[2]) # <<>>
    /\ DataOf(responses[1])[1] = DataOf(responses[2])[1]
    /\ Len(extracted_data)
         = Len(DataOf(responses[1])) + Len(DataOf(responses[2]))

----------------------------------------------------------------------------
(* The flattening step on its own: a raw record is flattened, and the flat *)
(* row is then flattened once more.                                        *)

\* The choices for one field of a record: absent, or one of the values.
FieldChoices(key, values) == {<<>>} \cup {<< <<key, v>> >> : v \in values}

IndicatorChoices ==
    FieldChoices("indicator",
                 {Str("1.1.1"), List(<<Str("1.1.1")>>), List(<<>>)})

DimensionsChoices ==
    FieldChoices("dimensions",
                 {Dict(<< <<"sex", Str("female")>>, <<"age", Str("15-19")>> >>),
                  Dict(<< <<"sex", List(<<Str("female")>>)>> >>),
                  Str(JsonDimText), Str(NotJsonText), Str(JsonListText),
                  List(<<Str("a")>>), None})

AttributesChoices ==
    FieldChoices("attributes",
                 {Dict(<< <<"Nature", Str("E")>>, <<"Units", Str("PERCENT")>> >>),
                  Str(JsonAttrText), Str(NotJsonText)})

OtherChoices ==
    {<<>>,
     << <<"value", Str("12.5")>> >>,
     << <<"value", Num("12")>>, <<"source", None>> >>,
     << <<"goal", List(<<Str("1")>>)>> >>,
     << <<"series", Dict(<< <<"code", Str("SI_POV")>> >>)>> >>,
     << <<"Indicator", Str("1.3.1")>>, <<"value", Str("n/a")>> >>}

\* The raw records handed to the flattening step.
Entries ==
    {i \o d \o a \o o : i \in IndicatorChoices, d \in DimensionsChoices,
                        a \in AttributesChoices, o \in OtherChoices}

InitFlatten ==
    /\ pc = "off"
    /\ max_pages = 1
    /\ page_num = 1
    /\ extracted_data = <<>>
    /\ requested = <<>>
    /\ responses = <<>>
    /\ errors = <<>>
    /\ shown = <<>>
    /\ df = NoDf
    /\ entry \in Entries
    /\ row_data = <<>>
    /\ fpc = "raw"
    /\ NoQuery
    /\ NoCache

\* Lines 184-226 on a raw record.
Flatten ==
    /\ fpc = "raw"
    /\ row_data' = flatten(entry)
    /\ fpc' = "flat"
    /\ UNCHANGED <<pc, max_pages, page_num, extracted_data, requested,
                   responses, errors, shown, df, entry, queryVars, cacheVars>>

\* Lines 184-226 on the flat row just built, taken as the record.
Reflatten ==
    /\ fpc = "flat"
    /\ entry' = row_data
    /\ row_data' = flatten(row_data)
    /\ fpc' = "again"
    /\ UNCHANGED <<pc, max_pages, page_num, extracted_data, requested,
                   responses, errors, shown, df, queryVars, cacheVars>>

NextFlatten ==
    \/ Flatten
    \/ Reflatten

SpecFlatten == InitFlatten /\ [][NextFlatten]_vars

\* The two dicts have the same keys and the same value under each.
SameMapping(a, b) ==
    /\ KeySet(a) = KeySet(b)
    /\ \A k \in KeySet(a) : DictAt(a, k) = DictAt(b, k)

Values(d) == {d[i][2] : i \in DOMAIN d}

\* All field values are scalars.
IsFlat(e) == \A v \in Values(e) : IsScalar(v)

\* C5: when "dimensions" is an object, the flat row has for each inner key
\* k the column dimension_k with the inner value, and no "dimensions"
\* column.
C5_DimensionsExpanded ==
    (fpc \in {"flat", "again"} /\ HasKey(entry, "dimensions")
       /\ IsDict(DictAt(entry, "dimensions")))
    => /\ \A p \in Range(DictAt(entry, "dimensions").val) :
             /\ HasKey(row_data, "dimension_" \o p[1])
             /\ DictAt(row_data, "dimension_" \o p[1]) = p[2]
       /\ ~HasKey(row_data, "dimensions")

\* The record {"dimensions": {"sex": "female", "age": "15-19"}} (with other
\* fields) has been flattened.
C5_Witness ==
    /\ fpc = "flat"
    /\ HasKey(entry, "dimensions")
    /\ DictAt(entry, "dimensions")
         = Dict(<< <<"sex", Str("female")>>, <<"age", Str("15-19")>> >>)
    /\ DictGet(row_data, "dimension_sex", None) = Str("female")
    /\ DictGet(row_data, "dimension_age", None) = Str("15-19")

\* C6 as claimed: an already-flat record is returned with exactly its own
\* keys and values.
C6_FlatRecordUnchanged ==
    (fpc = "flat" /\ IsFlat(entry)) => SameMapping(row_data, entry)

\* The field is a text that json.loads turns into an object.
IsJsonObjectText(v) == IsStr(v) /\ IsDict(json_loads(v.val))

\* C6 as amended: flattening a flat row that the flattening step produced
\* changes nothing; for an already-flat raw record every field but
\* "indicator" (and but a dimensions/attributes text holding a JSON object)
\* is copied unchanged under its own key, and the row has the key
\* "Indicator", holding the record's own "Indicator", else its "indicator",
\* else "".
C6_FlattenIdempotent ==
    /\ fpc = "again" => (row_data = entry /\ SameMapping(row_data, entry))
    /\ (fpc = "flat" /\ IsFlat(entry))
       => /\ \A p \in Range(entry) :
                (/\ p[1] # "indicator"
                 /\ ~(p[1] \in {"dimensions", "attributes"}
                      /\ IsJsonObjectText(p[2])))
                => (HasKey(row_data, p[1]) /\ DictAt(row_data, p[1]) = p[2])
          /\ HasKey(row_data, "Indicator")
          /\ DictAt(row_data, "Indicator")
               = DictGet(entry, "Indicator",
                         DictGet(entry, "indicator", Str("")))

\* A flat row with a non-empty Indicator and expansion columns has been
\* flattened again.
C6_Witness ==
    /\ fpc = "again"
    /\ DictGet(entry, "Indicator", Str("")) = Str("1.1.1")
    /\ HasKey(entry, "dimension_sex")
    /\ HasKey(entry, "attribute_Nature")
    /\ HasKey(row_data, "dimension_sex")

\* C7 as claimed: every value of a flat row is a scalar.
C7_NoContainerSurvives ==
    fpc = "flat" => \A v \in Values(row_data) : IsScalar(v)

\* The inner pairs of an object field, given as object or as JSON text.
InnerPairs(e, key) ==
    LET v == DictGet(e, key, None)
    IN IF IsDict(v) THEN Range(v.val)
       ELSE IF IsJsonObjectText(v) THEN Range(json_loads(v.val).val)
       ELSE {}

\* C7 as amended: no flat row holds an object, or the JSON text of one,
\* under "dimensions" or "attributes": those are expanded into dimension_k
\* and attribute_k columns.  Any other container in a flat row is a value
\* the record carried: the same-named field, the indicator, or an inner
\* value of dimensions/attributes.
C7_ObjectsExpanded ==
    fpc = "flat"
    => /\ \A k \in {"dimensions", "attributes"} :
             HasKey(row_data, k)
             => /\ ~IsDict(DictAt(row_data, k))
                /\ ~IsJsonObjectText(DictAt(row_data, k))
                /\ DictAt(row_data, k) = DictAt(entry, k)
       /\ \A p \in InnerPairs(entry, "dimensions") :
             DictGet(row_data, "dimension_" \o p[1], None) = p[2]
       /\ \A p \in InnerPairs(entry, "attributes") :
             DictGet(row_data, "attribute_" \o p[1], None) = p[2]
       /\ \A p \in Range(row_data) :
             ~IsScalar(p[2])
             => \/ (p[1] # "Indicator" /\ DictGet(entry, p[1], None) = p[2])
                \/ (p[1] = "Indicator" /\ p[2] = IndicatorOf(entry))
                \/ \E q \in InnerPairs(entry, "dimensions") :
                      p[1] = "dimension_" \o q[1] /\ p[2] = q[2]
                \/ \E q \in InnerPairs(entry, "attributes") :
                      p[1] = "attribute_" \o q[1] /\ p[2] = q[2]

\* An object under "dimensions" was expanded while a list under another
\* key went into the flat row as it was.
C7_Witness ==
    /\ fpc = "flat"
    /\ HasKey(entry, "dimensions") /\ IsDict(DictAt(entry, "dimensions"))
    /\ HasKey(entry, "attributes") /\ IsDict(DictAt(entry, "attributes"))
    /\ ~HasKey(row_data, "dimensions")
    /\ ~HasKey(row_data, "attributes")
    /\ HasKey(row_data, "goal") /\ IsList(DictAt(row_data, "goal"))

----------------------------------------------------------------------------
(* The table construction on its own, lines 239-321, stage by stage        *)

\* The longest list of flat rows the model hands to the table construction.
MaxRows == 3

recD ==
    << <<"m49", Str("12")>>, <<"Value", Str("12.5")>>,
       <<"Year", Str("n/a")>> >>

recE == << <<"a", Num("1")>> >>

recF == << <<"a", Num("2")>>, <<"b", Str("x")>> >>

recG == << <<"timePeriodStart", Num("2000")>>, <<"Year", Str("12.5")>> >>

\* The flat rows the page loop may have collected.
TableRows == {flatten(r) : r \in {recA, recB, recC, recD, recE, recF, recG}}

InitTable ==
    /\ pc = "rows"
    /\ max_pages = 1
    /\ page_num = 1
    /\ extracted_data \in SeqsUpTo(TableRows, MaxRows)
    /\ requested = <<>>
    /\ responses = <<>>
    /\ errors = <<>>
    /\ shown = <<>>
    /\ df = NoDf
    /\ entry = <<>>
    /\ row_data = <<>>
    /\ fpc = "off"
    /\ NoQuery
    /\ NoCache

\* Line 239
Frame ==
    /\ pc = "rows"
    /\ df' = DataFrame(extracted_data)
    /\ pc' = "frame"
    /\ UNCHANGED <<max_pages, page_num, extracted_data, requested, responses,
                   errors, shown, entry, row_data, fpc,
                   queryVars, cacheVars>>

\* Line 241 on an empty table: nothing more is done to it.
SkipEmpty ==
    /\ pc = "frame"
    /\ IsEmpty(df)
    /\ pc' = "final"
    /\ UNCHANGED <<max_pages, page_num, extracted_data, requested, responses,
                   errors, shown, df, entry, row_data, fpc,
                   queryVars, cacheVars>>

\* Lines 254-256: a code column was found, the reference table is joined.
Join ==
    /\ pc = "frame"
    /\ ~IsEmpty(df)
    /\ country_code_column(df) # NoColumn
    /\ df' = GeoJoin(df)
    /\ pc' = "joined"
    /\ UNCHANGED <<max_pages, page_num, extracted_data, requested, responses,
                   errors, shown, entry, row_data, fpc,
                   queryVars, cacheVars>>

\* Lines 257-258: no code column, a warning and no join.
JoinSkipped ==
    /\ pc = "frame"
    /\ ~IsEmpty(df)
    /\ country_code_column(df) = NoColumn
    /\ df' = GeoJoin(df)
    /\ shown' = Append(shown, "Could not find country code column.")
    /\ pc' = "joined"
    /\ UNCHANGED <<max_pages, page_num, extracted_data, requested, responses,
                   errors, entry, row_data, fpc,
                   queryVars, cacheVars>>

\* Lines 260-321; the cast of line 264 may raise, which ends the run.
Finish ==
    /\ pc = "joined"
    /\ IF AstypeRaises(df)
       THEN pc' = "crashed" /\ df' = df
       ELSE pc' = "final" /\ df' = Reorder(Rename(Coerce(df)))
    /\ UNCHANGED <<max_pages, page_num, extracted_data, requested, responses,
                   errors, shown, entry, row_data, fpc,
                   queryVars, cacheVars>>

NextTable ==
    \/ Frame
    \/ SkipEmpty
    \/ Join
    \/ JoinSkipped
    \/ Finish

SpecTable == InitTable /\ [][NextTable]_vars

\* The geographic columns the join adds.
GeoColumns ==
    {"Country or Area", "Region Name", "Sub-region Name",
     "Intermediate Region Name", "iso2", "iso3"}

\* The rows of the reference table whose m49 is the given code.
ReferenceRows(code) ==
    {i \in DOMAIN iso3_reference_df.rows :
        Cell(iso3_reference_df, i, "m49") = code}

\* C8: the join keeps every input row, in order and with its own cells; a
\* row whose area code is in the reference table gets that entry's country,
\* region and iso fields, a row with an unknown (or no) code has them null.
C8_LeftJoinKeepsRows ==
    (pc = "joined" /\ country_code_column(DataFrame(extracted_data)) # NoColumn)
    => LET left == DataFrame(extracted_data)
           code == country_code_column(left)
       IN /\ Len(df.rows) = Len(left.rows)
          /\ GeoColumns \subseteq ColSet(df)
          /\ \A i \in DOMAIN left.rows :
                /\ \A c \in ColSet(left) : Cell(df, i, c) = Cell(left, i, c)
                /\ \A r \in ReferenceRows(Cell(left, i, code)) :
                      \A c \in GeoColumns :
                          Cell(df, i, c) = Cell(iso3_reference_df, r, c)
                /\ ReferenceRows(Cell(left, i, code)) = {}
                   => \A c \in GeoColumns \cup ({"m49"} \ {code}) :
                          Cell(df, i, c) = NaN

\* A table with a known and an unknown area code has been joined.
C8_Witness ==
    /\ pc = "joined"
    /\ Len(extracted_data) = 2
    /\ DictGet(extracted_data[1], "geoAreaCode", None) = Str("4")
    /\ DictGet(extracted_data[2], "geoAreaCode", None) = Str("999")
    /\ Len(df.rows) = 2
    /\ Cell(df, 1, "iso3") = Str("AFG")
    /\ Cell(df, 2, "iso3") = NaN

\* C9: the table built from ragged rows is rectangular: one table row per
\* flat row in input order, the columns are the union of the keys of all
\* rows, each once, and a row lacking a key holds null in that column.
C9_RaggedRowsRectangular ==
    pc = "frame"
    => /\ Len(df.rows) = Len(extracted_data)
       /\ ColSet(df) = UNION {KeySet(extracted_data[i]) :
                                 i \in DOMAIN extracted_data}
       /\ Cardinality(ColSet(df)) = Len(df.columns)
       /\ \A i \in DOMAIN df.rows :
             /\ Len(df.rows[i]) = Len(df.columns)
             /\ \A c \in ColSet(df) :
                   Cell(df, i, c) = IF HasKey(extracted_data[i], c)
                                    THEN DictAt(extracted_data[i], c)
                                    ELSE NaN

\* The rows of the records {a: 1} and {a: 2, b: "x"} have been made a table.
C9_Witness ==
    /\ pc = "frame"
    /\ extracted_data = <<flatten(recE), flatten(recF)>>
    /\ Len(df.rows) = 2
    /\ ColSet(df) = {"Indicator", "a", "b"}
    /\ Cell(df, 1, "b") = NaN
    /\ Cell(df, 2, "b") = Str("x")

----------------------------------------------------------------------------
(* Construction of the request: the SDG data_url, lines 102-152 of         *)
(* src/sdg_dashboard.py, and the ACLED parameters, lines 187-222 of        *)
(* src/acled_dashboard.py.  A multiselect returns its selection as a list  *)
(* in the order the options were picked.                                   *)

\* The number of requests the model builds for one selection.
MaxBuilds == 2

\* sep.join(parts)
RECURSIVE join(_, _)
join(parts, sep) ==
    IF parts = <<>> THEN ""
    ELSE IF Len(parts) = 1 THEN parts[1]
    ELSE parts[1] \o sep \o join(Tail(parts), sep)

\* The lists without repetition over subsets of S: the orders in which a
\* user may have picked options of a multiselect.
Orderings(S) ==
    {q \in SeqsUpTo(S, Cardinality(S)) :
        \A i, j \in DOMAIN q : i # j => q[i] # q[j]}

Reverse(q) == [i \in DOMAIN q |-> q[Len(q) + 1 - i]]

\* The elements of q, each once, in the order of first appearance.
RECURSIVE Distinct(_)
Distinct(q) ==
    IF q = <<>> THEN <<>>
    ELSE <<Head(q)>> \o SelectSeq(Distinct(Tail(q)), LAMBDA x : x # Head(q))

\* The string hash seeds a Python process may start with.
HashSeeds == {"seed1", "seed2"}

\* Line 124: list(set(selected_countries)).  The iteration order of a set of
\* str follows the hashes of its elements, which depend on the seed the
\* process drew at its start.
ListOfSet(q, seed) ==
    IF seed = "seed1" THEN Distinct(q) ELSE Reverse(Distinct(q))

\* Line 102: iso3_reference_df['Region Name'].dropna().unique()
regions ==
    Distinct([i \in DOMAIN iso3_reference_df.rows |->
                 Cell(iso3_reference_df, i, "Region Name").val])

\* Lines 111-114
RegionsChosen(selected_regions) ==
    IF "SELECT ALL" \in Range(selected_regions)
    THEN SelectSeq(regions, LAMBDA r : r # "SELECT ALL")
    ELSE SelectSeq(selected_regions, LAMBDA r : r # "SELECT ALL")

\* Lines 116-117: the m49 codes of a region, in the reference table's order.
get_countries_by_region(region) ==
    LET hits == SelectSeq(iso3_reference_df.rows,
                          LAMBDA r : r[ColIndex(iso3_reference_df,
                                                "Region Name")] = Str(region))
    IN [h \in DOMAIN hits |-> hits[h][ColIndex(iso3_reference_df, "m49")].val]

\* Lines 119-121: the codes of all chosen regions, region after region.
RECURSIVE CountriesOfRegions(_)
CountriesOfRegions(rs) ==
    IF rs = <<>> THEN <<>>
    ELSE get_countries_by_region(Head(rs)) \o CountriesOfRegions(Tail(rs))

\* Lines 119-140: the codes the country multiselect returns when the user
\* leaves it at its default: the "code - name" entries of the de-duplicated
\* region countries, cut back to the code.
selected_country_codes(selected_regions, seed) ==
    ListOfSet(CountriesOfRegions(RegionsChosen(selected_regions)), seed)

\* Line 150: str(i) for i in range(first, last + 1)
YearTexts(years) ==
    [i \in 1..(years[2] - years[1] + 1) |-> ToString(years[1] + i - 1)]

\* Line 44
BASE_URL == "https://unstats.un.org/sdgs/UNSDGAPIV5"

\* The page size as written into the URL, line 151.
PageSizeText == "1000"

\* Lines 148-152
data_url(sel, seed) ==
    LET indicator_params ==
            "indicator=" \o join(sel.items, "&indicator=")
        country_params ==
            "&areaCode="
            \o join(selected_country_codes(sel.regions, seed), "&areaCode=")
        year_params == "&timePeriod=" \o join(YearTexts(sel.years), "&timePeriod=")
    IN BASE_URL \o "/v1/sdg/Indicator/Data?" \o indicator_params
       \o country_params \o year_params \o "&pageSize=" \o PageSizeText

\* Lines 187-222 of src/acled_dashboard.py: the parameters dict, as the
\* sequence of its items.
parameters(sel) ==
    << <<"_format", "json">> >>
    \o (IF sel.countries # <<>>
        THEN << <<"country", join(sel.countries, "|")>> >> ELSE <<>>)
    \o (IF sel.regions # <<>>
        THEN << <<"region", join(sel.regions, "|")>> >> ELSE <<>>)
    \o (IF sel.items # <<>>
        THEN << <<"sub_event_type", join(sel.items, "|")>> >> ELSE <<>>)
    \o (IF sel.years[1] = sel.years[2]
        THEN << <<"year", ToString(sel.years[1])>> >>
        ELSE << <<"year", ToString(sel.years[1])>>, <<"year_where", ">=">>,
                <<"year_end", ToString(sel.years[2])>> >>)
    \o (IF sel.num_rows > 0
        THEN << <<"limit", ToString(sel.num_rows)>> >> ELSE <<>>)

\* The year ranges the model sets the slider to.
YearRanges == {<<2000, 2000>>, <<2000, 2001>>}

\* Selections of the SDG page: indicator codes, regions; the country
\* multiselect is left at the default the regions give it.
SdgSelections ==
    [items : Orderings({"1.1.1", "1.2.1"}),
     regions : Orderings({"Asia", "Africa"}) \cup {<<"SELECT ALL">>},
     countries : {<<>>},
     years : YearRanges,
     num_rows : {0}]

\* Selections of the ACLED page: sub-event types, regions, countries, years
\* and the number of rows.
AcledSelections ==
    [items : Orderings({"Armed clash", "Peaceful protest"}),
     regions : {<<>>, <<"Western Africa">>},
     countries : Orderings({"Afghanistan", "Algeria"}),
     years : YearRanges,
     num_rows : {0, 5000}]

InitQuery ==
    /\ pc = "off"
    /\ max_pages = 1
    /\ page_num = 1
    /\ extracted_data = <<>>
    /\ requested = <<>>
    /\ responses = <<>>
    /\ errors = <<>>
    /\ shown = <<>>
    /\ df = NoDf
    /\ entry = <<>>
    /\ row_data = <<>>
    /\ fpc = "none"
    /\ \/ dashboard = "sdg" /\ selected \in SdgSelections
       \/ dashboard = "acled" /\ selected \in AcledSelections
    /\ hash_seed \in HashSeeds
    /\ builds = <<>>
    /\ NoCache

loopVars ==
    <<pc, max_pages, page_num, extracted_data, requested, responses, errors,
      shown, df, entry, row_data, fpc>>

\* A script run of the SDG page builds data_url from the widgets.
BuildSdgUrl ==
    /\ dashboard = "sdg"
    /\ Len(builds) < MaxBuilds
    /\ builds' = Append(builds, data_url(selected, hash_seed))
    /\ UNCHANGED <<loopVars, cacheVars, dashboard, selected, hash_seed>>

\* A press of "get data" on the ACLED page builds parameters.
BuildAcledParameters ==
    /\ dashboard = "acled"
    /\ Len(builds) < MaxBuilds
    /\ builds' = Append(builds, parameters(selected))
    /\ UNCHANGED <<loopVars, cacheVars, dashboard, selected, hash_seed>>

\* The server process is started anew and Python draws a new hash seed; the
\* user makes the same selection again.
Restart ==
    /\ \E seed \in HashSeeds \ {hash_seed} : hash_seed' = seed
    /\ UNCHANGED <<loopVars, cacheVars, dashboard, selected, builds>>

NextQuery ==
    \/ BuildSdgUrl
    \/ BuildAcledParameters
    \/ Restart

SpecQuery == InitQuery /\ [][NextQuery]_vars

\* C10: two builds of the request from the same filter selection give the
\* same parameter string (SDG) or parameter mapping (ACLED).
C10_SameSelectionSameRequest ==
    \A i, j \in DOMAIN builds : builds[i] = builds[j]

----------------------------------------------------------------------------
(* The "get data" handler of the ACLED page, lines 170-273 of              *)
(* src/acled_dashboard.py, and the two pages together                      *)

\* Records as the ACLED API lists them.
acledA ==
    << <<"event_id_cnty", Str("AFG1")>>, <<"country", Str("Afghanistan")>>,
       <<"fatalities", Str("3")>> >>

acledB ==
    << <<"event_id_cnty", Str("DZA7")>>, <<"country", Str("Algeria")>> >>

\* The record lists of an ACLED response.
AcledLists == SeqsUpTo({acledA, acledB}, page_size)

\* get_data_with_params returns None (lines 72-77) after its own st.error.
NoResponse == [kind |-> "none", has_data |-> FALSE, data |-> <<>>]

\* What get_data_with_params may return: None, a JSON object with a "data"
\* list, a JSON object without one (not empty), or a JSON array.
AcledResponses ==
    {NoResponse, NoDataKey}
    \cup {Payload(l) : l \in AcledLists}
    \cup {BareList(l) : l \in AcledLists}

\* "if data": None and an empty list are false.
Truthy(resp) ==
    /\ resp.kind # "none"
    /\ resp.kind = "list" => resp.data # <<>>

\* Line 227
HasDataList(resp) == Truthy(resp) /\ resp.kind = "dict" /\ resp.has_data

\* Line 235
IsListResponse(resp) == Truthy(resp) /\ resp.kind = "list"

\* Lines 227-247: the table the handler leaves in df.
AcledTable(resp) ==
    IF HasDataList(resp) \/ IsListResponse(resp)
    THEN DataFrame(resp.data)
    ELSE NoDf

\* Lines 73, 76 and 244: the st.error calls for a returned value.
AcledErrors(resp) ==
    (IF resp.kind = "none" THEN <<"API request failed">> ELSE <<>>)
    \o (IF HasDataList(resp) \/ IsListResponse(resp)
        THEN <<>>
        ELSE <<"No data received from API or unexpected response format">>)

\* Lines 230, 238: st.success
AcledSuccess(resp) ==
    IF HasDataList(resp) \/ IsListResponse(resp)
    THEN <<"Successfully retrieved records from ACLED API">>
    ELSE <<>>

AcledStart == pc \in {"idle", "done", "crashed", "a_done"}

\* Lines 176-178: the credentials are not set.
AcledNoCredentials ==
    /\ AcledStart
    /\ requested' = <<>>
    /\ responses' = <<>>
    /\ errors' = <<"ACLED credentials not found.">>
    /\ df' = NoDf
    /\ shown' = Display(NoDf)
    /\ extracted_data' = <<>>
    /\ pc' = "a_done"
    /\ UNCHANGED <<max_pages, page_num, entry, row_data, fpc, queryVars, cacheVars>>

\* Lines 180, 248-250: no access token.
AcledAuthFailed ==
    /\ AcledStart
    /\ requested' = <<>>
    /\ responses' = <<>>
    /\ errors' = <<"Failed to get access token",
                   "Failed to authenticate with ACLED API.">>
    /\ df' = NoDf
    /\ shown' = Display(NoDf)
    /\ extracted_data' = <<>>
    /\ pc' = "a_done"
    /\ UNCHANGED <<max_pages, page_num, entry, row_data, fpc, queryVars, cacheVars>>

\* Lines 182-247 and 254-273: one request, its classification, the display.
AcledRequest ==
    /\ AcledStart
    /\ \E resp \in AcledResponses :
          /\ requested' = <<1>>
          /\ responses' = <<resp>>
          /\ errors' = AcledErrors(resp)
          /\ df' = AcledTable(resp)
          /\ shown' = AcledSuccess(resp) \o Display(AcledTable(resp))
    /\ extracted_data' = <<>>
    /\ pc' = "a_done"
    /\ UNCHANGED <<max_pages, page_num, entry, row_data, fpc, queryVars, cacheVars>>

NextAcled ==
    \/ AcledNoCredentials
    \/ AcledAuthFailed
    \/ AcledRequest

\* The two pages of the app: either handler may run.
NextApp ==
    \/ Next
    \/ NextAcled

SpecApp == Init /\ [][NextApp]_vars

----------------------------------------------------------------------------
(* What the user sees after a handler has run                              *)

Finished == pc \in {"done", "a_done"}

NoDataShown ==
    \E i \in 1..Len(shown) : shown[i] = "no data returned for selected filters"

\* The request did not succeed: an Exception (SDG) or None (ACLED).
Failed(resp) == resp.kind \in {"exc", "none"}

\* The response carries a list of records, under "data" or as a bare array.
CarriesRecords(resp) ==
    \/ resp.kind = "dict" /\ resp.has_data
    \/ resp.kind = "list"

RecordsOf(resp) == IF CarriesRecords(resp) THEN resp.data ELSE <<>>

\* C11: once a handler has run, 'no data returned for selected filters' is
\* on screen only if every request succeeded and no record came back; a
\* failed request leaves an error on screen and never the 'no data'
\* message; and a run whose responses all succeeded with an empty list of
\* records leaves no error on screen.
C11_OutcomesDistinguished ==
    Finished =>
        /\ NoDataShown =>
              /\ responses # <<>>
              /\ \A i \in 1..Len(responses) :
                    /\ ~Failed(responses[i])
                    /\ RecordsOf(responses[i]) = <<>>
        /\ (\E i \in 1..Len(responses) : Failed(responses[i])) =>
              /\ errors # <<>>
              /\ ~NoDataShown
        /\ ( /\ responses # <<>>
             /\ \A i \in 1..Len(responses) :
                   /\ CarriesRecords(responses[i])
                   /\ RecordsOf(responses[i]) = <<>> ) =>
              errors = <<>>

\* C12: a response that carries its records under "data" or as a bare
\* array never ends in an unhandled exception, and after the ACLED handler
\* (one request) it leaves no error and one table row per record.
C12_BothShapesAccepted ==
    /\ pc # "crashed"
    /\ ( /\ pc = "a_done"
         /\ Len(responses) = 1
         /\ CarriesRecords(responses[1]) ) =>
            /\ errors = <<>>
            /\ ~df.none
            /\ Len(df.rows) = Len(RecordsOf(responses[1]))

----------------------------------------------------------------------------
(* Text-valued "dimensions" and "attributes", lines 197-204 and 212-219    *)

\* The two expanded fields with the prefix of their columns.
ExpandedFields ==
    {<<"dimensions", "dimension_">>, <<"attributes", "attribute_">>}

\* The inner keys of the objects the model uses.
InnerKeys == {"sex", "age", "Nature", "Units"}

\* key names a column that an expansion with this prefix makes.
IsExpansionColumn(key, prefix) == \E k \in InnerKeys : key = prefix \o k

\* C13: flattening a record whose "dimensions" or "attributes" is a text
\* gives a row; if the text is a JSON object each inner key k has its
\* dimension_k / attribute_k column with the inner value; otherwise (not
\* JSON, or JSON that is not an object) the row holds the very text under
\* the original key and no expansion column that the record did not have.
C13_TextFieldsParsedOrCopied ==
    fpc \in {"flat", "again"} =>
        \A f \in ExpandedFields :
            (HasKey(entry, f[1]) /\ IsStr(DictAt(entry, f[1]))) =>
                LET text == DictAt(entry, f[1])
                    parsed == json_loads(text.val)
                IN IF IsDict(parsed)
                   THEN \A p \in Range(parsed.val) :
                           /\ HasKey(row_data, f[2] \o p[1])
                           /\ DictAt(row_data, f[2] \o p[1]) = p[2]
                   ELSE /\ HasKey(row_data, f[1])
                        /\ DictAt(row_data, f[1]) = text
                        /\ \A k \in KeySet(row_data) :
                              IsExpansionColumn(k, f[2]) => HasKey(entry, k)

\* A record with "dimensions" a JSON array text and "attributes" a JSON
\* object text has been flattened: the first is copied, the second expanded.
C13_Witness ==
    /\ fpc = "flat"
    /\ DictGet(entry, "dimensions", None) = Str(JsonListText)
    /\ DictGet(entry, "attributes", None) = Str(JsonAttrText)
    /\ DictGet(row_data, "dimensions", None) = Str(JsonListText)
    /\ ~HasKey(row_data, "dimension_sex")
    /\ DictGet(row_data, "attribute_Nature", None) = Str("E")
    /\ ~HasKey(row_data, "attributes")

----------------------------------------------------------------------------
(* The numeric columns of the final table, lines 260-264                   *)

\* The value and year columns: as the API names them (value,
\* timePeriodStart) and as lines 261-264 name them (Value, Year).
NumericColumns == {"value", "timePeriodStart", "Value", "Year"}

\* A number or a null (None, NaN, <NA>).
IsNumberOrNull(v) == v.kind \in {"num", "nan", "none"}

\* C14: the table construction raises no error, and in the final table
\* every row is kept and every cell of a value or year column is a number
\* or null.
C14_NumericColumnsCoerced ==
    /\ pc # "crashed"
    /\ pc = "final" =>
          /\ Len(df.rows) = Len(extracted_data)
          /\ \A c \in NumericColumns \cap ColSet(df) :
                \A i \in DOMAIN df.rows : IsNumberOrNull(Cell(df, i, c))

----------------------------------------------------------------------------
(* The column order of the final table, lines 275-321                      *)

\* The columns of the table before line 321 picks and orders them.
ColumnsBeforeReorder == ColSet(Rename(GeoJoin(DataFrame(extracted_data))))

\* The place of a column's group in the claimed order.
Group(c) ==
    CASE c = "m49" -> 1
      [] c = "iso3" -> 2
      [] c = "Region Name" -> 3
      [] c = "Sub-region Name" -> 4
      [] c = "Intermediate Region Name" -> 5
      [] c = "Country or Area" -> 6
      [] IsBreakdownColumn(c) -> 7
      [] c = "seriesDescription" -> 8
      [] c = "timePeriodStart" -> 9
      [] c = "value" -> 10
      [] OTHER -> 11

\* The place of a name in the order of Python's str comparison.
NameRank(c) == CHOOSE k \in DOMAIN SortedNames : SortedNames[k] = c

\* C15: the final table has every column that is not on the deny-list
\* exactly once and no column that is; the columns stand in the order m49,
\* iso3, Region Name, Sub-region Name, Intermediate Region Name, Country
\* or Area, the 'Breakdown by' columns sorted, seriesDescription,
\* timePeriodStart, value, then the remaining columns sorted.
C15_ColumnOrder ==
    (pc = "final" /\ ~IsEmpty(df)) =>
        /\ ColSet(df) = ColumnsBeforeReorder \ unwanted_columns
        /\ \A i, j \in DOMAIN df.columns :
              i < j =>
                 /\ df.columns[i] # df.columns[j]
                 /\ \/ Group(df.columns[i]) < Group(df.columns[j])
                    \/ /\ Group(df.columns[i]) = Group(df.columns[j])
                       /\ NameRank(df.columns[i]) < NameRank(df.columns[j])

\* A final table with joined code columns, two breakdown columns, value,
\* several remaining columns, and a deny-listed column left out.
C15_Witness ==
    /\ pc = "final"
    /\ {"m49", "iso3", "Country or Area", "Breakdown by age",
        "Breakdown by sex", "value", "Indicator", "geoAreaCode", "iso2"}
          \subseteq ColSet(df)
    /\ "footnotes" \in ColumnsBeforeReorder
    /\ "footnotes" \notin ColSet(df)

----------------------------------------------------------------------------
(* get_data under @st.cache_data, lines 8-31                               *)

\* The largest number of network requests the model lets get_data make.
MaxRequests == 3

\* The payloads response.json() may give for a url.
CachePayloads == {Payload(<<recA>>), Payload(<<recB>>)}

InitCache ==
    /\ pc = "off"
    /\ max_pages = 1
    /\ page_num = 1
    /\ extracted_data = <<>>
    /\ requested = <<>>
    /\ responses = <<>>
    /\ errors = <<>>
    /\ shown = <<>>
    /\ df = NoDf
    /\ entry = <<>>
    /\ row_data = <<>>
    /\ fpc = "off"
    /\ NoQuery
    /\ NoCache

\* The decorator finds a value for the url: the function body does not
\* run, the remembered value is returned.
CacheHit ==
    \E u \in URLs :
        /\ cache[u] # Absent
        /\ last_call' = [url |-> u, request |-> FALSE,
                         before |-> returned[u], result |-> cache[u]]
        /\ returned' = [returned EXCEPT ![u] = cache[u]]
        /\ UNCHANGED <<cache, network, loopVars, queryVars>>

\* Lines 14-22 on a miss: status 200 with a JSON body; the decorator
\* stores the returned payload.
FetchOk ==
    \E u \in URLs, payload \in CachePayloads :
        /\ cache[u] = Absent
        /\ network < MaxRequests
        /\ network' = network + 1
        /\ cache' = [cache EXCEPT ![u] = payload]
        /\ returned' = [returned EXCEPT ![u] = payload]
        /\ last_call' = [url |-> u, request |-> TRUE,
                         before |-> returned[u], result |-> payload]
        /\ UNCHANGED <<loopVars, queryVars>>

\* Lines 18-19 on a miss: an empty body.  The Exception is returned, not
\* raised, and nothing is cleared: the decorator stores it like any
\* return value.
FetchEmptyBody ==
    \E u \in URLs :
        /\ cache[u] = Absent
        /\ network < MaxRequests
        /\ network' = network + 1
        /\ cache' = [cache EXCEPT ![u] = Failure]
        /\ returned' = [returned EXCEPT ![u] = Failure]
        /\ last_call' = [url |-> u, request |-> TRUE,
                         before |-> returned[u], result |-> Failure]
        /\ UNCHANGED <<loopVars, queryVars>>

\* Lines 23-31 on a miss: requests.get, raise_for_status or
\* response.json() raised.  st.cache_data.clear() empties every cache,
\* then the Exception is returned and the decorator writes it; whether the
\* next call finds that write depends on the Streamlit version (the
\* cleared cache object may be replaced by a new one), so both outcomes
\* are possible.
FetchRaises ==
    \E u \in URLs :
        /\ cache[u] = Absent
        /\ network < MaxRequests
        /\ network' = network + 1
        /\ cache' \in {EmptyCache, [EmptyCache EXCEPT ![u] = Failure]}
        /\ returned' = [returned EXCEPT ![u] = Failure]
        /\ last_call' = [url |-> u, request |-> TRUE,
                         before |-> returned[u], result |-> Failure]
        /\ UNCHANGED <<loopVars, queryVars>>

NextCache ==
    \/ CacheHit
    \/ FetchOk
    \/ FetchEmptyBody
    \/ FetchRaises

SpecCache == InitCache /\ [][NextCache]_vars

\* C16: a call for a url whose previous call returned a payload makes no
\* network request and returns that payload; a call for a url whose
\* previous call returned a failure makes a new network request.
C16_OnlySuccessMemoized ==
    /\ last_call.before \in CachePayloads =>
          /\ ~last_call.request
          /\ last_call.result = last_call.before
    /\ IsException(last_call.before) => last_call.request

====
